---- MODULE Spec2Model ----
(***************************************************************************)
(* Model of src/utils.rs of prettytable-rs: the display-width scanner      *)
(* (display_width) and the field aligner (print_align).                    *)
(*                                                                         *)
(* Characters are Unicode code points, strings are sequences of code       *)
(* points, byte strings are sequences of 0..255.                           *)
(***************************************************************************)
EXTENDS Integers, Sequences, FiniteSets, TLC

\* ------------------------------------------------------------------ bounds
\* longest text handed to a direct display_width call
MaxLen == 4
\* longest OSC payload / label of the hyperlink-shaped inputs
MaxPayload == 1
MaxLabel == 1
\* most pieces (visible characters, CSI sequences) of the coloured inputs
MaxPieces == 3
\* longest text and largest field size handed to print_align
MaxAlignLen == 2
MaxSize == 4
\* most calls made on one StringWriter
MaxWrites == 3
\* longest free-form text handed to HtmlEscape
MaxHtmlLen == 3
\* longest text of a display_width call that runs beside another
MaxConcLen == 2

\* ------------------------------------------------------- characters
\* '\u{1b}'
ESC == 27
\* '['
LBracket == 91
\* ']'
RBracket == 93
\* 'm'
LowerM == 109
\* '\\'
Backslash == 92

\* The characters the inputs are built from: ESC [ ] m \ 0, a combining
\* mark U+0301 (width 0) and a CJK ideograph U+4E2D (width 2).
Alphabet == {ESC, LBracket, RBracket, LowerM, Backslash, 48, 769, 20013}
NoEsc == Alphabet \ {ESC}

\* fill characters: '0' (may also occur in the text) and '*'
Fills == {48, 42}

\* UnicodeWidthChar::width(c).unwrap_or(0): control characters have no
\* width (None), combining diacritical marks 0, CJK unified ideographs 2,
\* everything else used here 1.
CharWidth(c) ==
    IF c < 32 \/ (c >= 127 /\ c < 160) THEN 0
    ELSE IF c >= 768 /\ c <= 879 THEN 0
    ELSE IF c >= 19968 /\ c <= 40959 THEN 2
    ELSE 1

\* UnicodeWidthStr::width(text), the raw width oracle: the sum of the
\* per-character widths, a control character such as ESC counting 0 as it
\* does in CharWidth.
RECURSIVE StrWidth(_)
StrWidth(t) == IF t = <<>> THEN 0 ELSE CharWidth(Head(t)) + StrWidth(Tail(t))

\* all sequences over S of length at most k
RECURSIVE Strs(_, _)
Strs(S, k) ==
    IF k = 0 THEN {<<>>}
    ELSE {<<>>} \cup {<<c>> \o s : s \in Strs(S, k - 1), c \in S}

\* ------------------------------------------------- display_width, per arm
\* HideIfVisible with the whole width of the character hidden
HideWholeWidth(c, h) == h + CharWidth(c)

HideIfVisible(c, h) == IF CharWidth(c) > 0 THEN h + 1 ELSE h

\* StepNormal with '[' taken for an opener as well
StepNormalOpensOnBracket(c, h) ==
    IF c = ESC \/ c = LBracket THEN [state |-> "EscapeChar", hidden |-> h]
    ELSE [state |-> "Normal", hidden |-> h]

StepNormal(c, h) ==
    IF c = ESC THEN [state |-> "EscapeChar", hidden |-> h]
    ELSE [state |-> "Normal", hidden |-> h]

StepEscapeChar(c, h) ==
    IF c = LBracket THEN [state |-> "OpenBracket", hidden |-> h]
    ELSE IF c = RBracket THEN [state |-> "Osc", hidden |-> h + 2]
    ELSE [state |-> "Normal", hidden |-> h]

StepOpenBracket(c, h) ==
    [state |-> IF c = LowerM THEN "AfterEscape"
               ELSE IF c = ESC THEN "EscapeChar"
               ELSE "OpenBracket",
     hidden |-> HideIfVisible(c, h)]

StepAfterEscape(c, h) ==
    [state |-> "Normal", hidden |-> HideIfVisible(c, h)]

StepOsc(c, h) ==
    [state |-> IF c = ESC THEN "OscEscapeChar" ELSE "Osc",
     hidden |-> HideIfVisible(c, h)]

\* StepOscEscapeChar with the closing '\' treated like the 'm' of a CSI
StepOscEscapeCharToAfterEscape(c, h) ==
    IF c = Backslash THEN [state |-> "AfterEscape", hidden |-> h + 2]
    ELSE [state |-> "Osc", hidden |-> HideIfVisible(c, h)]

\* StepOscEscapeChar with the OSC abandoned when no '\' follows the ESC
StepOscEscapeCharAbandons(c, h) ==
    IF c = Backslash THEN [state |-> "Normal", hidden |-> h + 2]
    ELSE [state |-> "Normal", hidden |-> h]

\* StepOscEscapeChar with the closing '\' hidden as one column
StepOscEscapeCharAddsOne(c, h) ==
    IF c = Backslash THEN [state |-> "Normal", hidden |-> h + 1]
    ELSE [state |-> "Osc", hidden |-> HideIfVisible(c, h)]

StepOscEscapeChar(c, h) ==
    IF c = Backslash THEN [state |-> "Normal", hidden |-> h + 2]
    ELSE [state |-> "Osc", hidden |-> HideIfVisible(c, h)]

\* the match on `state` in the loop body
Step(s, c, h) ==
    CASE s = "Normal" -> StepNormal(c, h)
      [] s = "EscapeChar" -> StepEscapeChar(c, h)
      [] s = "OpenBracket" -> StepOpenBracket(c, h)
      [] s = "AfterEscape" -> StepAfterEscape(c, h)
      [] s = "Osc" -> StepOsc(c, h)
      [] s = "OscEscapeChar" -> StepOscEscapeChar(c, h)

\* state and hidden after the first k characters of t
RECURSIVE ScanPrefix(_, _)
ScanPrefix(t, k) ==
    IF k = 0 THEN [state |-> "Normal", hidden |-> 0]
    ELSE LET p == ScanPrefix(t, k - 1) IN Step(p.state, t[k], p.hidden)

\* the value display_width returns, or Panic when its assertion fails
Panic == -1

\* AssertHolds with the check compiled away
AssertNeverFails(w, h) == TRUE

\* assert!(width >= hidden, ...), lines 175-181
AssertHolds(w, h) == w >= h

display_width(t) ==
    LET h == ScanPrefix(t, Len(t)).hidden
        w == StrWidth(t)
    IN IF w >= h THEN w - h ELSE Panic

\* ------------------------------------------------------------ bytes
\* char::encode_utf8, the bytes of one character in a str
Utf8Encode(c) ==
    IF c < 128 THEN <<c>>
    ELSE IF c < 2048 THEN <<192 + (c \div 64), 128 + (c % 64)>>
    ELSE IF c < 65536
         THEN <<224 + (c \div 4096), 128 + ((c \div 64) % 64), 128 + (c % 64)>>
    ELSE <<240 + (c \div 262144), 128 + ((c \div 4096) % 64),
           128 + ((c \div 64) % 64), 128 + (c % 64)>>

\* str::as_bytes
RECURSIVE as_bytes(_)
as_bytes(t) == IF t = <<>> THEN <<>> ELSE Utf8Encode(Head(t)) \o as_bytes(Tail(t))

IsCont(b, k) == Len(b) >= k /\ b[k] >= 128 /\ b[k] <= 191

\* number of bytes of the well-formed UTF-8 sequence b starts with, 0 if none
Utf8SeqLen(b) ==
    IF b[1] < 128 THEN 1
    ELSE IF b[1] >= 194 /\ b[1] <= 223 /\ IsCont(b, 2) THEN 2
    ELSE IF /\ b[1] >= 224 /\ b[1] <= 239 /\ IsCont(b, 2) /\ IsCont(b, 3)
            /\ (b[1] = 224 => b[2] >= 160)
            /\ (b[1] = 237 => b[2] <= 159) THEN 3
    ELSE IF /\ b[1] >= 240 /\ b[1] <= 244
            /\ IsCont(b, 2) /\ IsCont(b, 3) /\ IsCont(b, 4)
            /\ (b[1] = 240 => b[2] >= 144)
            /\ (b[1] = 244 => b[2] <= 143) THEN 4
    ELSE 0

\* the code point of the sequence of k bytes b starts with
Utf8CodePoint(b, k) ==
    CASE k = 1 -> b[1]
      [] k = 2 -> (b[1] - 192) * 64 + (b[2] - 128)
      [] k = 3 -> (b[1] - 224) * 4096 + (b[2] - 128) * 64 + (b[3] - 128)
      [] k = 4 -> (b[1] - 240) * 262144 + (b[2] - 128) * 4096
                  + (b[3] - 128) * 64 + (b[4] - 128)

\* str::from_utf8(b).is_ok()
RECURSIVE Utf8Valid(_)
Utf8Valid(b) ==
    \/ b = <<>>
    \/ /\ Utf8SeqLen(b) > 0
       /\ Utf8Valid(SubSeq(b, Utf8SeqLen(b) + 1, Len(b)))

\* the characters of str::from_utf8(b), for valid b
RECURSIVE from_utf8(_)
from_utf8(b) ==
    IF b = <<>> THEN <<>>
    ELSE LET k == Utf8SeqLen(b)
         IN <<Utf8CodePoint(b, k)>> \o from_utf8(SubSeq(b, k + 1, Len(b)))

\* FillBytes with a space in place of the fill character
FillBytesAlwaysSpace(f, k) == [j \in 1..k |-> 32]

\* vec![fill as u8; k]: `as u8` keeps the low eight bits of the code point
FillBytes(f, k) == [j \in 1..k |-> f % 256]

\* ------------------------------------------------- print_align, lines 66-72
\* NFill with the difference taken both ways
NFillAbsDiff(tl, sz) == IF tl < sz THEN sz - tl ELSE tl - sz

\* let mut nfill = if text_len < size { size - text_len } else { 0 };
NFill(tl, sz) == IF tl < sz THEN sz - tl ELSE 0

\* LeftFillCount with the Center half rounded up
LeftFillCountRoundUp(a, nf) ==
    CASE a = "LEFT" -> 0
      [] a = "RIGHT" -> nf
      [] a = "CENTER" -> (nf + 1) \div 2

\* let n = match align { LEFT => 0, RIGHT => nfill, CENTER => nfill / 2 };
LeftFillCount(a, nf) ==
    CASE a = "LEFT" -> 0
      [] a = "RIGHT" -> nf
      [] a = "CENTER" -> nf \div 2

\* RightFillWanted with the flag ignored
RightFillIgnoresSkip(nf, skip) == nf > 0

\* if nfill > 0 && !skip_right_fill
RightFillWanted(nf, skip) == nf > 0 /\ ~skip

Alignment == {"LEFT", "RIGHT", "CENTER"}

\* the errors a sink's write can fail with (io::ErrorKind)
SinkErrors == {"WriteZero", "Other"}

\* the display_width calls that may run at the same time
Threads == {1, 2}
\* a thread that is not inside display_width
IdleThread ==
    [pc |-> "idle", text |-> <<>>, pos |-> 0, state |-> "Normal",
     hidden |-> 0, width |-> 0, result |-> Panic]

\* ----------------------------------------------------------------- state
VARIABLES
    pc,              \* where the running call is
    caller,          \* "display_width" (direct call) or "print_align"
    text,            \* the text argument
    pos,             \* characters of text consumed by the loop
    state, hidden, width, result,               \* display_width's locals
    align, fill, size, skip_right_fill,         \* print_align's arguments
    text_len, nfill, n,                         \* print_align's locals
    out,             \* bytes the sink has accepted
    ret,             \* what print_align returned: "None", "Ok" or the error
    writes,          \* the write_all calls issued so far and their outcomes
    string, wlog,                               \* a StringWriter and its calls
    hs, hi, last, hout, hpc,                    \* HtmlEscape::fmt
    threads          \* display_width calls running side by side

scanVars == <<state, hidden, width, pos>>
argVars == <<align, fill, size, skip_right_fill>>
writerVars == <<string, wlog>>
htmlVars == <<hs, hi, last, hout, hpc>>
otherVars == <<writerVars, htmlVars, threads>>
coreVars == <<pc, caller, text, pos, state, hidden, width, result,
              align, fill, size, skip_right_fill, text_len, nfill, n, out,
              ret, writes>>
vars == <<coreVars, otherVars>>

\* a complete CSI colour sequence ESC [ params m; '0' stands for the
\* parameter characters
CsiSeqs == {<<ESC, LBracket, LowerM>>, <<ESC, LBracket, 48, LowerM>>}

\* visible characters and complete CSI sequences in any order
RECURSIVE Pieces(_)
Pieces(k) ==
    IF k = 0 THEN {<<>>}
    ELSE {<<>>} \cup {p \o s : s \in Pieces(k - 1),
                              p \in CsiSeqs \cup {<<c>> : c \in NoEsc}}

\* payloads: a bare '\', a zero-width and a wide character; labels: any
\* characters but ESC
Payloads == Strs({Backslash, 769, 20013}, MaxPayload)
Labels == Strs(NoEsc, MaxLabel)

\* ESC ] payload ESC \ label ESC ] payload ESC \
HyperlinkTexts ==
    {<<ESC, RBracket>> \o p1 \o <<ESC, Backslash>> \o l
       \o <<ESC, RBracket>> \o p2 \o <<ESC, Backslash>> :
         p1 \in Payloads, l \in Labels, p2 \in Payloads}

Texts == Strs(Alphabet, MaxLen) \cup Pieces(MaxPieces) \cup HyperlinkTexts
\* short texts, and the shortest coloured ones
AlignTexts == Strs(Alphabet, MaxAlignLen) \cup CsiSeqs

Init ==
    /\ pc = "idle"
    /\ caller = "none"
    /\ text = <<>>
    /\ pos = 0
    /\ state = "Normal"
    /\ hidden = 0
    /\ width = 0
    /\ result = Panic
    /\ align = "LEFT"
    /\ fill = 42
    /\ size = 0
    /\ skip_right_fill = FALSE
    /\ text_len = 0
    /\ nfill = 0
    /\ n = 0
    /\ out = <<>>
    /\ ret = "None"
    /\ writes = <<>>
    /\ string = <<>>
    /\ wlog = <<>>
    /\ hs = <<>>
    /\ hi = 0
    /\ last = 0
    /\ hout = <<>>
    /\ hpc = "idle"
    /\ threads = [t \in Threads |-> IdleThread]

\* entry of display_width(t): lines 103-105
EnterDisplayWidth(t) ==
    /\ text' = t
    /\ width' = StrWidth(t)
    /\ state' = "Normal"
    /\ hidden' = 0
    /\ pos' = 0
    /\ pc' = "scan"

\* a caller invokes display_width(t)
DisplayWidthCall ==
    /\ pc = "idle"
    /\ \E t \in Texts : EnterDisplayWidth(t)
    /\ caller' = "display_width"
    /\ UNCHANGED <<result, argVars, text_len, nfill, n, out, ret, writes, otherVars>>

\* a caller invokes print_align(out, a, t, f, sz, skip); line 66 calls
\* display_width(text)
PrintAlignCall ==
    /\ pc = "idle"
    /\ \E t \in AlignTexts : EnterDisplayWidth(t)
    /\ \E a \in Alignment, f \in Fills, sz \in 0..MaxSize, skip \in BOOLEAN :
        /\ align' = a
        /\ fill' = f
        /\ size' = sz
        /\ skip_right_fill' = skip
    /\ caller' = "print_align"
    /\ UNCHANGED <<result, text_len, nfill, n, out, ret, writes, otherVars>>

\* one iteration of the loop over text.chars() in state s
ScanIn(s) ==
    /\ pc = "scan"
    /\ pos < Len(text)
    /\ state = s
    /\ LET r == Step(s, text[pos + 1], hidden)
       IN /\ state' = r.state
          /\ hidden' = r.hidden
    /\ pos' = pos + 1
    /\ UNCHANGED <<pc, caller, text, width, result, argVars,
                   text_len, nfill, n, out, ret, writes, otherVars>>

ScanNormal == ScanIn("Normal")
ScanEscapeChar == ScanIn("EscapeChar")
ScanOpenBracket == ScanIn("OpenBracket")
ScanAfterEscape == ScanIn("AfterEscape")
ScanOsc == ScanIn("Osc")
ScanOscEscapeChar == ScanIn("OscEscapeChar")

\* the assertion and the subtraction after the loop (lines 175-183); a
\* failed assertion unwinds through print_align as well
Finish ==
    /\ pc = "scan"
    /\ pos = Len(text)
    /\ IF AssertHolds(width, hidden)
       THEN /\ result' = width - hidden
            /\ pc' = IF caller = "print_align" THEN "fill" ELSE "returned"
       ELSE /\ pc' = "panicked"
            /\ UNCHANGED result
    /\ UNCHANGED <<caller, text, scanVars, argVars, text_len, nfill, n, out, ret,
                   writes, otherVars>>

\* lines 66-72: text_len, nfill and n
ComputeFill ==
    /\ pc = "fill"
    /\ text_len' = result
    /\ nfill' = NFill(result, size)
    /\ n' = LeftFillCount(align, NFill(result, size))
    /\ pc' = "left"
    /\ UNCHANGED <<caller, text, scanVars, result, argVars, out, ret, writes,
                   otherVars>>

\* WriteAll with a failed write ignored: print_align carries on
WriteAllSwallowsError(bytes, nextpc) ==
    \/ /\ out' = out \o bytes
       /\ writes' = Append(writes, <<pc, "Ok">>)
       /\ pc' = nextpc
       /\ ret' = IF nextpc = "done" THEN "Ok" ELSE ret
    \/ /\ \E k \in 0..(Len(bytes) - 1) : out' = out \o SubSeq(bytes, 1, k)
       /\ \E e \in SinkErrors : writes' = Append(writes, <<pc, e>>)
       /\ pc' = nextpc
       /\ ret' = IF nextpc = "done" THEN "Ok" ELSE ret

\* out.write_all(bytes)?: the sink takes all the bytes, or it takes only
\* the first k of them and fails, and `?` returns the error at once
WriteAll(bytes, nextpc) ==
    \/ /\ out' = out \o bytes
       /\ writes' = Append(writes, <<pc, "Ok">>)
       /\ pc' = nextpc
       /\ ret' = IF nextpc = "done" THEN "Ok" ELSE ret
    \/ /\ \E k \in 0..(Len(bytes) - 1) : out' = out \o SubSeq(bytes, 1, k)
       /\ \E e \in SinkErrors :
            /\ writes' = Append(writes, <<pc, e>>)
            /\ ret' = e
       /\ pc' = "done"

\* lines 73-76
LeftFill ==
    /\ pc = "left"
    /\ IF n > 0
       THEN /\ WriteAll(FillBytes(fill, n), "text")
            /\ nfill' = IF pc' = "text" THEN nfill - n ELSE nfill
       ELSE /\ pc' = "text"
            /\ UNCHANGED <<out, ret, writes, nfill>>
    /\ UNCHANGED <<caller, text, scanVars, result, argVars, text_len, n,
                   otherVars>>

\* line 77
WriteText ==
    /\ pc = "text"
    /\ WriteAll(as_bytes(text), "right")
    /\ UNCHANGED <<caller, text, scanVars, result, argVars, text_len, nfill, n,
                   otherVars>>

\* lines 78-81
RightFill ==
    /\ pc = "right"
    /\ IF RightFillWanted(nfill, skip_right_fill)
       THEN WriteAll(FillBytes(fill, nfill), "done")
       ELSE /\ pc' = "done"
            /\ ret' = "Ok"
            /\ UNCHANGED <<out, writes>>
    /\ UNCHANGED <<caller, text, scanVars, result, argVars, text_len, nfill, n,
                   otherVars>>

Next ==
    \/ DisplayWidthCall
    \/ PrintAlignCall
    \/ ScanNormal
    \/ ScanEscapeChar
    \/ ScanOpenBracket
    \/ ScanAfterEscape
    \/ ScanOsc
    \/ ScanOscEscapeChar
    \/ Finish
    \/ ComputeFill
    \/ LeftFill
    \/ WriteText
    \/ RightFill

Spec == Init /\ [][Next]_vars

\* ---------------------------------------------------------- StringWriter
\* byte chunks handed to write: "", "f", U+00E9, U+4E2D, the test's [0, 255],
\* a lead byte alone, a continuation byte alone, "f" and a lead byte
Chunks ==
    {<<>>, <<102>>, <<195, 169>>, <<228, 184, 173>>,
     <<0, 255>>, <<195>>, <<169>>, <<102, 195>>}

\* StringWriter::as_string
as_string == string

\* StringWriterWrite that stores U+FFFD for a chunk it cannot decode
StringWriterWriteLossy(data) ==
    /\ Len(wlog) < MaxWrites
    /\ IF Utf8Valid(data)
       THEN /\ string' = string \o from_utf8(data)
            /\ wlog' = Append(wlog, [op |-> "write", data |-> data, ok |-> TRUE, count |-> Len(data)])
       ELSE /\ string' = Append(string, 65533)
            /\ wlog' = Append(wlog, [op |-> "write", data |-> data, ok |-> FALSE, count |-> 0])
    /\ UNCHANGED <<coreVars, htmlVars, threads>>

\* StringWriter::write(data), lines 35-47
StringWriterWrite(data) ==
    /\ Len(wlog) < MaxWrites
    /\ IF Utf8Valid(data)
       THEN /\ string' = string \o from_utf8(data)
            /\ wlog' = Append(wlog, [op |-> "write", data |-> data, ok |-> TRUE, count |-> Len(data)])
       ELSE /\ string' = string
            /\ wlog' = Append(wlog, [op |-> "write", data |-> data, ok |-> FALSE, count |-> 0])
    /\ UNCHANGED <<coreVars, htmlVars, threads>>

\* StringWriter::flush, lines 49-52
StringWriterFlush ==
    /\ Len(wlog) < MaxWrites
    /\ wlog' = Append(wlog, [op |-> "flush", data |-> <<>>, ok |-> TRUE, count |-> 0])
    /\ UNCHANGED <<string, coreVars, htmlVars, threads>>

StringWriterWriteAny == \E data \in Chunks : StringWriterWrite(data)

NextWriter ==
    \/ StringWriterWriteAny
    \/ StringWriterFlush

SpecWriter == Init /\ [][NextWriter]_vars

\* ------------------------------------------------------------ HtmlEscape
\* HtmlEntity with '&' passed through unescaped
HtmlEntityKeepsAmp(ch) ==
    CASE ch = 62 -> <<38, 103, 116, 59>>
      [] ch = 60 -> <<38, 108, 116, 59>>
      [] ch = 38 -> <<38>>
      [] ch = 39 -> <<38, 35, 51, 57, 59>>
      [] ch = 34 -> <<38, 113, 117, 111, 116, 59>>

\* lines 201-208: "&gt;" "&lt;" "&amp;" "&#39;" "&quot;" as bytes
HtmlEntity(ch) ==
    CASE ch = 62 -> <<38, 103, 116, 59>>
      [] ch = 60 -> <<38, 108, 116, 59>>
      [] ch = 38 -> <<38, 97, 109, 112, 59>>
      [] ch = 39 -> <<38, 35, 51, 57, 59>>
      [] ch = 34 -> <<38, 113, 117, 111, 116, 59>>

\* line 199: '<' | '>' | '&' | '\'' | '"'
IsSpecial(ch) == ch \in {60, 62, 38, 39, 34}

\* characters of the texts handed to HtmlEscape: < > & ' " ; a U+00E9
HtmlAlphabet == {60, 62, 38, 39, 34, 59, 97, 233}
\* the texts: free-form ones, and ones that already contain an entity
HtmlTexts ==
    Strs(HtmlAlphabet, MaxHtmlLen)
      \cup {pre \o HtmlEntity(ch) \o post :
              ch \in {60, 62, 38, 39, 34},
              pre \in Strs(HtmlAlphabet, 1), post \in Strs(HtmlAlphabet, 1)}

\* fmt.write_str(a)?; fmt.write_str(b)?: the formatter takes both, or it
\* fails in one of them having taken only part of it, and `?` returns
WriteStrs(a, b, nextpc) ==
    \/ /\ hout' = hout \o a \o b
       /\ hpc' = nextpc
    \/ /\ \E k \in 0..(Len(a \o b) - 1) : hout' = hout \o SubSeq(a \o b, 1, k)
       /\ hpc' = "err"

\* format!("{}", HtmlEscape(t)): lines 194-196
HtmlEscapeCall ==
    /\ hpc = "idle"
    /\ \E t \in HtmlTexts : hs' = as_bytes(t)
    /\ hi' = 0
    /\ last' = 0
    /\ hout' = <<>>
    /\ hpc' = "loop"
    /\ UNCHANGED <<coreVars, writerVars, threads>>

\* one iteration on a byte to escape, lines 199-211 (i, last count from 0)
HtmlStepSpecial ==
    /\ hpc = "loop"
    /\ hi < Len(hs)
    /\ IsSpecial(hs[hi + 1])
    /\ WriteStrs(SubSeq(hs, last + 1, hi), HtmlEntity(hs[hi + 1]), "loop")
    /\ last' = IF hpc' = "loop" THEN hi + 1 ELSE last
    /\ hi' = hi + 1
    /\ UNCHANGED <<hs, coreVars, writerVars, threads>>

\* one iteration on any other byte, line 212
HtmlStepPlain ==
    /\ hpc = "loop"
    /\ hi < Len(hs)
    /\ ~IsSpecial(hs[hi + 1])
    /\ hi' = hi + 1
    /\ UNCHANGED <<hs, last, hout, hpc, coreVars, writerVars, threads>>

\* after the loop, lines 216-219
HtmlFinish ==
    /\ hpc = "loop"
    /\ hi = Len(hs)
    /\ IF last < Len(hs)
       THEN WriteStrs(SubSeq(hs, last + 1, Len(hs)), <<>>, "ok")
       ELSE hpc' = "ok" /\ UNCHANGED hout
    /\ UNCHANGED <<hs, hi, last, coreVars, writerVars, threads>>

NextHtml ==
    \/ HtmlEscapeCall
    \/ HtmlStepSpecial
    \/ HtmlStepPlain
    \/ HtmlFinish

SpecHtml == Init /\ [][NextHtml]_vars

\* ------------------------------------- display_width, calls side by side
\* texts of the calls that run at the same time
ConcAlphabet == {ESC, LBracket, RBracket, Backslash, 48}
ConcTexts == Strs(ConcAlphabet, MaxConcLen)

\* ScanHidden with hidden kept in one place for all calls
ScanHiddenShared(i) == threads[1].hidden

\* let mut hidden, line 105: a local of the call
ScanHidden(i) == threads[i].hidden

\* thread i calls display_width(t), lines 103-105
ConcCall(i, t) ==
    /\ threads[i].pc = "idle"
    /\ threads' = [threads EXCEPT ![i] =
           [pc |-> "scan", text |-> t, pos |-> 0, state |-> "Normal",
            hidden |-> 0, width |-> StrWidth(t), result |-> Panic]]
    /\ UNCHANGED <<coreVars, writerVars, htmlVars>>

\* one iteration of thread i's loop, lines 107-173
ConcStep(i) ==
    /\ threads[i].pc = "scan"
    /\ threads[i].pos < Len(threads[i].text)
    /\ LET c == threads[i].text[threads[i].pos + 1]
           r == Step(threads[i].state, c, ScanHidden(i))
       IN  threads' = [threads EXCEPT ![i].pos = @ + 1,
                                      ![i].state = r.state,
                                      ![i].hidden = r.hidden]
    /\ UNCHANGED <<coreVars, writerVars, htmlVars>>

\* thread i leaves the loop, lines 175-183
ConcFinish(i) ==
    /\ threads[i].pc = "scan"
    /\ threads[i].pos = Len(threads[i].text)
    /\ IF AssertHolds(threads[i].width, ScanHidden(i))
       THEN threads' = [threads EXCEPT ![i].pc = "returned",
                                       ![i].result = threads[i].width - ScanHidden(i)]
       ELSE threads' = [threads EXCEPT ![i].pc = "panicked"]
    /\ UNCHANGED <<coreVars, writerVars, htmlVars>>

\* the caller of thread i has its result (or its panic) and the thread is
\* free for the next call
ConcReturn(i) ==
    /\ threads[i].pc \in {"returned", "panicked"}
    /\ threads' = [threads EXCEPT ![i] = IdleThread]
    /\ UNCHANGED <<coreVars, writerVars, htmlVars>>

NextConc ==
    \/ \E i \in Threads, t \in ConcTexts : ConcCall(i, t)
    \/ \E i \in Threads : ConcStep(i)
    \/ \E i \in Threads : ConcFinish(i)
    \/ \E i \in Threads : ConcReturn(i)

SpecConc == Init /\ [][NextConc]_vars

TypeOK ==
    /\ pc \in {"idle", "scan", "returned", "panicked", "fill", "left",
               "text", "right", "done"}
    /\ pos \in 0..Len(text)
    /\ hidden \in Nat
    /\ nfill \in 0..MaxSize
    /\ \A j \in 1..Len(out) : out[j] \in 0..255
    /\ (pc = "done" /\ ret = "Ok") => Utf8Valid(out) /\ Len(from_utf8(out)) >= Len(text)

\* ================================================================ claims
Max(a, b) == IF a >= b THEN a ELSE b
HasEsc(t) == \E j \in 1..Len(t) : t[j] = ESC
Consumed == SubSeq(text, 1, pos)
DisplayWidthOver == caller = "display_width" /\ pc \in {"returned", "panicked"}

\* index of the 'm' closing the CSI sequence t starts with (ESC [ params m,
\* params being '0'), 0 if t does not start with one
CsiEnd(t) ==
    IF Len(t) >= 3 /\ t[1] = ESC /\ t[2] = LBracket
    THEN LET ms == {j \in 3..Len(t) :
                      t[j] = LowerM /\ \A i \in 3..(j - 1) : t[i] = 48}
         IN IF ms = {} THEN 0 ELSE CHOOSE j \in ms : TRUE
    ELSE 0

\* t consists of ESC-free text and complete CSI sequences only
RECURSIVE IsColoured(_)
IsColoured(t) ==
    IF t = <<>> THEN TRUE
    ELSE IF t[1] # ESC THEN IsColoured(Tail(t))
    ELSE CsiEnd(t) > 0 /\ IsColoured(SubSeq(t, CsiEnd(t) + 1, Len(t)))

\* a coloured t with every ESC [ ... m removed
RECURSIVE StripCsi(_)
StripCsi(t) ==
    IF t = <<>> THEN <<>>
    ELSE IF t[1] # ESC THEN <<t[1]>> \o StripCsi(Tail(t))
    ELSE StripCsi(SubSeq(t, CsiEnd(t) + 1, Len(t)))

\* positions of the ESC characters of t
EscAt(t) == {j \in 1..Len(t) : t[j] = ESC}

\* t is ESC ] payload ESC \ label ESC ] payload ESC \ with ESC-free parts
IsHyperlink(t) ==
    /\ Cardinality(EscAt(t)) = 4
    /\ 1 \in EscAt(t)
    /\ (Len(t) - 1) \in EscAt(t)
    /\ \A j \in EscAt(t) :
         LET before == Cardinality({i \in EscAt(t) : i < j})
         IN t[j + 1] = (IF before % 2 = 0 THEN RBracket ELSE Backslash)

\* the label of a hyperlink: what lies between its second and third ESC
HyperlinkLabel(t) ==
    LET e2 == CHOOSE j \in EscAt(t) : Cardinality({i \in EscAt(t) : i < j}) = 1
        e3 == CHOOSE j \in EscAt(t) : Cardinality({i \in EscAt(t) : i < j}) = 2
    IN SubSeq(t, e2 + 2, e3 - 1)

\* C1: display_width of a string made of ESC-free text and complete CSI
\* colour sequences equals display_width of the string with the sequences
\* removed.
C1_CsiColouredEqualsStripped ==
    (DisplayWidthOver /\ IsColoured(text))
        => (pc = "returned" /\ result = display_width(StripCsi(text)))

\* C2: display_width of ESC ] payload ESC \ label ESC ] payload ESC \ equals
\* display_width of the label.
C2_HyperlinkEqualsLabel ==
    (DisplayWidthOver /\ IsHyperlink(text))
        => (pc = "returned" /\ result = display_width(HyperlinkLabel(text)))

\* C3: at every scan position hidden is at least 0 and at most the raw width
\* of the characters consumed so far, and the final assertion never fails.
C3_HiddenWithinConsumedWidth ==
    /\ pc = "scan" => (0 <= hidden /\ hidden <= StrWidth(Consumed))
    /\ pc # "panicked"

\* C4: the character after the 'm' that ends a CSI sequence is treated as in
\* Normal: an ESC opens a new escape sequence, and nothing more is hidden.
C4_AfterTerminatorAsNormal ==
    [][(pc = "scan" /\ state = "AfterEscape" /\ pos' = pos + 1)
         => /\ state' = (IF text[pos + 1] = ESC THEN "EscapeChar" ELSE "Normal")
            /\ hidden' = hidden]_vars

\* C5: on a text without ESC the scanner stays in Normal, hidden stays 0, and
\* display_width returns the raw width of the text.
C5_PlainTextIsRawWidth ==
    (pc \notin {"idle"} /\ ~HasEsc(text))
        => /\ state = "Normal"
           /\ hidden = 0
           /\ pc # "panicked"
           /\ (pc # "scan" => result = StrWidth(text))

C5_Witness ==
    /\ pc = "returned"
    /\ ~HasEsc(text)
    /\ \E i, j, k \in 1..Len(text) :
         text[i] = LBracket /\ text[j] = LowerM /\ CharWidth(text[k]) = 2

\* ------------------------------------------------------ print_align claims
AlignOk == caller = "print_align" /\ pc = "done" /\ ret = "Ok"
\* total_fill = max(0, size - display_width(text))
TotalFill == Max(0, size - display_width(text))
\* left_fill: 0 for Left, total_fill for Right, floor(total_fill / 2) for Center
LeftPad ==
    IF align = "LEFT" THEN 0
    ELSE IF align = "RIGHT" THEN TotalFill
    ELSE CHOOSE k \in 0..TotalFill : 2 * k <= TotalFill /\ TotalFill < 2 * k + 2
\* k copies of the fill character, a single byte
Pad(k) == [j \in 1..k |-> fill]
\* number of fill bytes the output ends with after the text
RightPadLen == Len(out) - LeftPad - Len(as_bytes(text))

\* s without its trailing / leading occurrences of character c
RECURSIVE TrimEnd(_, _)
TrimEnd(s, c) ==
    IF s # <<>> /\ s[Len(s)] = c THEN TrimEnd(SubSeq(s, 1, Len(s) - 1), c) ELSE s
RECURSIVE TrimStart(_, _)
TrimStart(s, c) ==
    IF s # <<>> /\ s[1] = c THEN TrimStart(Tail(s), c) ELSE s

\* C6: with the suppress flag unset and a fill character of width 1, the
\* output of print_align has display width max(size, display_width(text));
\* stated here for texts whose escape sequences are complete CSI sequences.
C6_OutputHasRequestedWidth ==
    (AlignOk /\ ~skip_right_fill /\ CharWidth(fill) = 1 /\ IsColoured(text))
        => /\ Utf8Valid(out)
           /\ display_width(from_utf8(out))
                = Max(size, display_width(text))

\* C7: with the flag unset print_align emits left_fill fill bytes, the text
\* bytes, then total_fill - left_fill fill bytes; for Center the right pad
\* is the left pad or one more.
C7_FillSplit ==
    (AlignOk /\ ~skip_right_fill)
        => /\ out = Pad(LeftPad) \o as_bytes(text) \o Pad(TotalFill - LeftPad)
           /\ align = "CENTER" => (RightPadLen - LeftPad) \in {0, 1}

C7_Witness ==
    /\ AlignOk
    /\ ~skip_right_fill
    /\ align = "CENTER"
    /\ text # <<>>
    /\ TotalFill = 3
    /\ out = Pad(1) \o as_bytes(text) \o Pad(2)

\* C8: with the flag set nothing follows the text bytes and the leading
\* fill is as with the flag unset; the Right output does not depend on the
\* flag.
C8_NoTrailingFillWhenSuppressed ==
    /\ (AlignOk /\ skip_right_fill) => out = Pad(LeftPad) \o as_bytes(text)
    /\ (AlignOk /\ align = "RIGHT") => out = Pad(TotalFill) \o as_bytes(text)

C8_Witness ==
    /\ AlignOk
    /\ skip_right_fill
    /\ align = "CENTER"
    /\ text # <<>>
    /\ TotalFill = 3
    /\ out = Pad(1) \o as_bytes(text)

\* C9: when size <= display_width(text) print_align writes the bytes of the
\* text and nothing else, whatever the alignment and the flag.
C9_NoFillWhenTextFills ==
    (AlignOk /\ size <= display_width(text)) => out = as_bytes(text)

C9_Witness ==
    /\ AlignOk
    /\ align = "CENTER"
    /\ size > 0
    /\ size < display_width(text)
    /\ out = as_bytes(text)

\* C10 as stated: trimming the trailing fill characters of the Left output,
\* or the leading ones of the Right output, gives back the text, for every
\* text.
C10_TrimRecoversText ==
    /\ (AlignOk /\ align = "LEFT") => TrimEnd(from_utf8(out), fill) = text
    /\ (AlignOk /\ align = "RIGHT") => TrimStart(from_utf8(out), fill) = text

\* C10 amended: the same, for a text that does not end (Left) or begin
\* (Right) with the fill character.
C10_TrimRecoversTextNotTouchingFill ==
    /\ (AlignOk /\ align = "LEFT" /\ (text = <<>> \/ text[Len(text)] # fill))
         => TrimEnd(from_utf8(out), fill) = text
    /\ (AlignOk /\ align = "RIGHT" /\ (text = <<>> \/ text[1] # fill))
         => TrimStart(from_utf8(out), fill) = text

C10_Witness ==
    /\ AlignOk
    /\ align = "LEFT"
    /\ ~skip_right_fill
    /\ Len(text) >= 2
    /\ text[1] = fill
    /\ text[Len(text)] # fill
    /\ Len(out) > Len(as_bytes(text))

\* ------------------------------------------------------------ write order
\* position of a write in the order leading fill, text, trailing fill
WriteRank(w) == CASE w[1] = "left" -> 1 [] w[1] = "text" -> 2 [] w[1] = "right" -> 3
Issued(l) == \E j \in 1..Len(writes) : writes[j][1] = l
C11_Inv ==
    /\ \A i, j \in 1..Len(writes) : i < j => WriteRank(writes[i]) < WriteRank(writes[j])
    /\ \A j \in 1..(Len(writes) - 1) : writes[j][2] = "Ok"
    /\ Issued("left") => n > 0
    /\ Issued("right") => (nfill > 0 /\ ~skip_right_fill)
    /\ (writes # <<>> /\ writes[Len(writes)][2] # "Ok")
         => (pc = "done" /\ ret = writes[Len(writes)][2])
    /\ (caller = "print_align" /\ pc = "done")
         => /\ Issued("left") \/ n = 0
            /\ ret = "Ok" <=> /\ \A j \in 1..Len(writes) : writes[j][2] = "Ok"
                              /\ Issued("text")
                              /\ Issued("right") \/ nfill = 0 \/ skip_right_fill
            /\ ret # "Ok" => ret = writes[Len(writes)][2]
    /\ pc # "done" => ret = "None"

\* C11: print_align issues its writes in the order leading fill, text,
\* trailing fill, a fill write only for a count above 0; the first failed
\* write ends the call with that write's error and no further write, a call
\* whose writes all succeed returns Ok, and bytes the sink has accepted are
\* never taken back.
C11_WriteOrderAndErrors ==
    /\ []C11_Inv
    /\ [][/\ Len(out') >= Len(out)
          /\ SubSeq(out', 1, Len(out)) = out
          /\ Len(writes') >= Len(writes)
          /\ SubSeq(writes', 1, Len(writes)) = writes]_vars

C11_Witness ==
    /\ caller = "print_align"
    /\ pc = "done"
    /\ ret = "WriteZero"
    /\ writes = <<<<"left", "Ok">>, <<"text", "WriteZero">>>>
    /\ Len(out) > n
    /\ nfill > 0
    /\ ~skip_right_fill

\* ----------------------------------------------------------- StringWriter
\* the chunks that are well-formed UTF-8
ValidChunks == {<<>>, <<102>>, <<195, 169>>, <<228, 184, 173>>}

\* the bytes of the chunks of log l whose write returned Ok, in order
RECURSIVE AcceptedBytes(_)
AcceptedBytes(l) ==
    IF l = <<>> THEN <<>>
    ELSE LET e == l[Len(l)]
             before == AcceptedBytes(SubSeq(l, 1, Len(l) - 1))
         IN IF e.op = "write" /\ e.ok THEN before \o e.data ELSE before

\* C12: as_string() is the concatenation, in order, of the chunks whose
\* write returned Ok; a valid chunk returns Ok(its length), an invalid one
\* an error and no change; flush returns Ok and changes nothing.
C12_StringIsAcceptedChunks ==
    /\ as_bytes(as_string) = AcceptedBytes(wlog)
    /\ \A j \in 1..Len(wlog) :
         /\ wlog[j].op = "write"
              => /\ wlog[j].ok <=> wlog[j].data \in ValidChunks
                 /\ wlog[j].ok => wlog[j].count = Len(wlog[j].data)
         /\ wlog[j].op = "flush" => wlog[j].ok

C12_Witness ==
    /\ Len(wlog) = 3
    /\ wlog[1].data = <<195, 169>> /\ wlog[1].ok /\ wlog[1].count = 2
    /\ wlog[2].data = <<102, 195>> /\ ~wlog[2].ok
    /\ wlog[3].op = "flush"
    /\ as_string = <<233>>

\* ------------------------------------------------------------- HtmlEscape
\* the five replacements, as (byte, entity) pairs
EntityPairs ==
    {<<60, <<38, 108, 116, 59>>>>, <<62, <<38, 103, 116, 59>>>>,
     <<38, <<38, 97, 109, 112, 59>>>>, <<39, <<38, 35, 51, 57, 59>>>>,
     <<34, <<38, 113, 117, 111, 116, 59>>>>}

\* each of the five bytes of b replaced in place, the others copied
RECURSIVE Escaped(_)
Escaped(b) ==
    IF b = <<>> THEN <<>>
    ELSE LET ps == {p \in EntityPairs : p[1] = b[1]}
         IN (IF ps = {} THEN <<b[1]>> ELSE (CHOOSE p \in ps : TRUE)[2])
              \o Escaped(Tail(b))

\* one left-to-right pass that maps the five entities back
RECURSIVE Unescape(_)
Unescape(b) ==
    IF b = <<>> THEN <<>>
    ELSE LET ps == {p \in EntityPairs :
                      Len(b) >= Len(p[2]) /\ SubSeq(b, 1, Len(p[2])) = p[2]}
         IN IF ps = {} THEN <<b[1]>> \o Unescape(Tail(b))
            ELSE LET p == CHOOSE q \in ps : TRUE
                 IN <<p[1]>> \o Unescape(SubSeq(b, Len(p[2]) + 1, Len(b)))

\* C13: HtmlEscape emits the input with < > & ' " replaced in place by their
\* entities and every other byte copied; the output is at least as long as
\* the input and un-escaping it gives the input back.
C13_EscapeRoundTrip ==
    hpc = "ok"
        => /\ hout = Escaped(hs)
           /\ Len(hout) >= Len(hs)
           /\ Unescape(hout) = hs

C13_Witness ==
    /\ hpc = "ok"
    /\ hs = <<195, 169, 38, 108, 116, 59, 60>>
    /\ hout = <<195, 169, 38, 97, 109, 112, 59, 108, 116, 59, 38, 108, 116, 59>>

\* ------------------------------------------------------ transition table
\* a scan step is being taken on character Cur
ScanStep == pc = "scan" /\ pos' = pos + 1
Cur == text[pos + 1]
\* 1 for a character of nonzero display width, else 0
Visible(c) == IF CharWidth(c) > 0 THEN 1 ELSE 0

\* C14: in EscapeChar, ESC stays in EscapeChar, '[' goes to OpenBracket
\* adding nothing, ']' goes to Osc adding 2, anything else goes to Normal
\* adding nothing.
C14_EscapeCharRow ==
    [][(ScanStep /\ state = "EscapeChar")
         => /\ state' = (IF Cur = ESC THEN "EscapeChar"
                         ELSE IF Cur = LBracket THEN "OpenBracket"
                         ELSE IF Cur = RBracket THEN "Osc"
                         ELSE "Normal")
            /\ hidden' = hidden + (IF Cur = RBracket THEN 2 ELSE 0)]_vars

\* the table's rows for Normal, OpenBracket, AfterEscape, Osc, OscEscapeChar:
\* next state and hidden increment for state s and character c
TableRow(s, c) ==
    CASE s = "Normal" -> <<IF c = ESC THEN "EscapeChar" ELSE "Normal", 0>>
      [] s = "OpenBracket" ->
           <<IF c = LowerM THEN "AfterEscape"
             ELSE IF c = ESC THEN "EscapeChar" ELSE "OpenBracket", Visible(c)>>
      [] s = "AfterEscape" -> <<"Normal", Visible(c)>>
      [] s = "Osc" -> <<IF c = ESC THEN "OscEscapeChar" ELSE "Osc", Visible(c)>>
      [] s = "OscEscapeChar" ->
           IF c = Backslash THEN <<"Normal", 2>> ELSE <<"Osc", Visible(c)>>

\* C15: in Normal, OpenBracket, AfterEscape, Osc and OscEscapeChar a step's
\* next state and hidden increment are those of the table for the current
\* state and character.
C15_StepsFollowTable ==
    [][(ScanStep /\ state # "EscapeChar")
         => /\ state' = TableRow(state, Cur)[1]
            /\ hidden' = hidden + TableRow(state, Cur)[2]]_vars

C15_Witness ==
    /\ pc = "scan"
    /\ pos = 5
    /\ SubSeq(text, 1, 5) = <<ESC, RBracket, 20013, ESC, Backslash>>
    /\ state = "Normal"
    /\ hidden = 5

\* C16: every step adds 0, 1 or 2 to hidden, and at most 1 for a character
\* of width 2.
C16_HiddenMonotone ==
    [][ScanStep
         => /\ (hidden' - hidden) \in {0, 1, 2}
            /\ CharWidth(Cur) = 2 => hidden' - hidden <= 1]_vars

C16_Witness ==
    /\ pc = "scan"
    /\ pos = 3
    /\ SubSeq(text, 1, 3) = <<ESC, LBracket, 20013>>
    /\ state = "OpenBracket"
    /\ hidden = 1

\* ------------------------------------------------------------ OSC regions
\* the j-th character is the ']' that opens an OSC / the '\' that closes one
OpenedAt(j) == text[j] = RBracket /\ ScanPrefix(text, j - 1).state = "EscapeChar"
ClosedAt(j) == text[j] = Backslash /\ ScanPrefix(text, j - 1).state = "OscEscapeChar"
\* visible characters among text[a..b]
VisibleIn(a, b) == Cardinality({i \in a..b : CharWidth(text[i]) > 0})

\* the scan is in the label after an OSC closed at j: no ESC since
InLabelSince(j) ==
    /\ pc = "scan"
    /\ j \in 1..pos
    /\ ClosedAt(j)
    /\ \A i \in (j + 1)..pos : text[i] # ESC

\* C17: after ESC '\' has closed an OSC the scanner is in Normal, and the
\* characters up to the next ESC leave hidden unchanged.
C17_LabelNotHidden ==
    /\ [](\A j \in 1..pos : InLabelSince(j) => state = "Normal")
    /\ [][(ScanStep /\ Cur # ESC /\ \E j \in 1..pos : InLabelSince(j))
            => (hidden' = hidden /\ state' = "Normal")]_vars

C17_Witness ==
    /\ pc = "scan"
    /\ pos = 5
    /\ SubSeq(text, 1, 5) = <<ESC, RBracket, ESC, Backslash, 20013>>
    /\ state = "Normal"
    /\ hidden = 4

\* the scan is inside the OSC opened at j: the first ESC after j, if any,
\* is at e
FirstEscAfter(j, e) ==
    /\ pc = "scan"
    /\ j \in 1..pos /\ e \in (j + 1)..pos
    /\ OpenedAt(j)
    /\ text[e] = ESC
    /\ \A i \in (j + 1)..(e - 1) : text[i] # ESC

\* C18 as stated: in an OSC that is not closed every nonzero-width character
\* is hidden until the first later ESC, and once that ESC has appeared the
\* character that follows it adds nothing, whatever it is.
C18_AccumulationStopsAtEsc ==
    [][ScanStep
         => /\ (\E j \in 1..pos : OpenedAt(j) /\ \A i \in (j + 1)..pos : text[i] # ESC)
                 => hidden' = hidden + Visible(Cur)
            /\ (\E j \in 1..pos : FirstEscAfter(j, pos))
                 => hidden' = hidden]_vars

\* the scan is inside the OSC opened at j: no '\' has closed it
OpenSince(j) ==
    /\ pc = "scan"
    /\ j \in 1..pos
    /\ OpenedAt(j)
    /\ \A k \in (j + 1)..pos : ~ClosedAt(k)

\* C18 amended: between the ']' that opens an OSC and the '\' read directly
\* after an ESC that closes it (or the end of the input) every nonzero-width
\* character is hidden, one column each; an ESC followed by another
\* character does not stop this.
C18_AccumulationUntilClosed ==
    \A j \in 1..pos :
        OpenSince(j)
            => /\ state \in {"Osc", "OscEscapeChar"}
               /\ hidden = ScanPrefix(text, j).hidden + VisibleIn(j + 1, pos)

C18_Witness ==
    /\ pc = "scan"
    /\ pos = 4
    /\ text = <<ESC, RBracket, ESC, 20013>>
    /\ state = "Osc"
    /\ hidden = 3

\* ---------------------------------------------------------------- result
\* C19: display_width halts on the assertion exactly when hidden exceeds the
\* raw width, and otherwise returns raw width minus hidden, a value between
\* 0 and the raw width.
C19_NoNegativeWidth ==
    /\ pc = "panicked" => (hidden > width /\ result = Panic)
    /\ pc \in {"returned", "fill", "left", "text", "right", "done"}
         => /\ hidden <= width
            /\ width = StrWidth(text)
            /\ result = StrWidth(text) - hidden
            /\ 0 <= result /\ result <= StrWidth(text)

C19_Witness ==
    /\ caller = "display_width"
    /\ pc = "panicked"
    /\ text = <<ESC, RBracket, ESC, Backslash>>
    /\ hidden = 4
    /\ width = 2

\* ------------------------------------------------------ calls side by side
\* C20: the state, hidden count and raw width of a scan belong to the call:
\* whatever other call runs in between, a call is where it would be alone
\* and ends with the result it would have alone.
C20_CallsIndependent ==
    \A i \in Threads :
        /\ threads[i].pc # "idle"
             => /\ threads[i].state = ScanPrefix(threads[i].text, threads[i].pos).state
                /\ threads[i].hidden = ScanPrefix(threads[i].text, threads[i].pos).hidden
                /\ threads[i].width = StrWidth(threads[i].text)
        /\ threads[i].pc = "returned"
             => /\ threads[i].result # Panic
                /\ threads[i].result = display_width(threads[i].text)
        /\ threads[i].pc = "panicked"
             => display_width(threads[i].text) = Panic

C20_Witness ==
    /\ threads[1].pc = "scan"
    /\ threads[1].text = <<ESC, RBracket>>
    /\ threads[1].pos = 2
    /\ threads[1].hidden = 2
    /\ threads[2].pc = "returned"
    /\ threads[2].text = <<48, 48>>
    /\ threads[2].result = 2
====
